---- MODULE Spec2Model ----
(***************************************************************************)
(* Noq: an interactive term rewriter (src/src/main.rs).                    *)
(*                                                                         *)
(* The module models the term type Expr, the recursive-descent parser over *)
(* a Peekable token stream, pattern_match, substitute_bindings,            *)
(* Rule::apply_all and the command loop of main with                       *)
(* Context::process_command.                                               *)
(*                                                                         *)
(* Three specifications:                                                   *)
(*   Spec       the session: one action per command keyword, each a whole  *)
(*              iteration of main's loop;                                  *)
(*   SpecAlgo   pattern_match / substitute_bindings / apply_all applied to *)
(*              inputs drawn from bounded sets of terms;                   *)
(*   SpecParse  Expr::parse_peekable / Expr::parse applied to token        *)
(*              streams drawn from a bounded set.                          *)
(***************************************************************************)
EXTENDS Integers, Sequences, FiniteSets, TLC

VARIABLES
    rules,          \* Context.rules : rule name -> [head, body]
    current_expr,   \* Context.current_expr : NoExpr (None) or a term
    command,        \* the token stream of the line main has just processed
    result,         \* main's `result` for that line: its tag and payload
    output,         \* what the last command printed on stdout
    nShape,         \* history: number of shape commands that ended Ok
    nDone,          \* history: number of done commands that ended Ok
    ideal,          \* history: the term of the last Ok shape, rewritten by the
                    \* Ok applies since; NoExpr before it and after an Ok done
    call_fn,        \* SpecAlgo / SpecParse: the function that was applied
    call_in,        \* SpecAlgo / SpecParse: its inputs
    call_out        \* SpecAlgo / SpecParse: what it returned

vars == <<rules, current_expr, command, result, output, nShape, nDone,
          ideal, call_fn, call_in, call_out>>

sessionVars == <<rules, current_expr, command, result, output, nShape, nDone,
                 ideal>>

callVars == <<call_fn, call_in, call_out>>

----------------------------------------------------------------------------
(* Bounds                                                                  *)

\* terms of SpecAlgo and SpecParse have at most this many nodes
MaxTermSize == 3

\* Spec: the history counters nShape and nDone stop counting here
MaxCount == 2

----------------------------------------------------------------------------
(* Expr                                                                    *)

Sym(name) == [kind |-> "Sym", name |-> name, args |-> <<>>]

Fun(name, args) == [kind |-> "Fun", name |-> name, args |-> args]

\* Option<Expr>::None
NoExpr == [kind |-> "None", name |-> "", args |-> <<>>]

\* the value of a call that did not return: a panic unwound through it
Panicked == [kind |-> "Panic", name |-> "", args |-> <<>>]

----------------------------------------------------------------------------
(* Tokens and the Peekable<Lexer>                                          *)

\* `let x = v; F(x)`: v is computed once and F is applied to its value
Bind(v, F(_)) == CHOOSE r \in {F(x) : x \in {v}} : TRUE

Tok(kind, text) == [kind |-> kind, text |-> text]

\* Iterator::next() == None
NoToken == Tok("None", "")

EndTok == Tok("End", "")

\* the underlying iterator: the i-th token of the line, None once exhausted
TokAt(toks, i) == IF i <= Len(toks) THEN toks[i] ELSE NoToken

\* Lexer::from_iter(..).peekable()
\*   pos: the index of the next token the underlying iterator yields
\*   peeked: a token was taken from the iterator and put back (it is toks[pos-1])
Peekable(pos) == [pos |-> pos, peeked |-> FALSE]

\* Peekable::next
LexNext(toks, lx) ==
    IF lx.peeked
    THEN [tok |-> TokAt(toks, lx.pos - 1), lx |-> [pos |-> lx.pos, peeked |-> FALSE]]
    ELSE [tok |-> TokAt(toks, lx.pos), lx |-> [pos |-> lx.pos + 1, peeked |-> FALSE]]

\* Peekable::next_if(|t| t.kind == kind)
NextIf(toks, lx, kind) ==
    Bind(LexNext(toks, lx), LAMBDA n :
        IF n.tok.kind = kind
        THEN [some |-> TRUE, tok |-> n.tok, lx |-> n.lx]
        ELSE [some |-> FALSE, tok |-> n.tok, lx |-> [pos |-> n.lx.pos, peeked |-> TRUE]])

----------------------------------------------------------------------------
(* Results                                                                 *)

ROk(expr, lx) ==
    [tag |-> "Ok", expr |-> expr, expected |-> {}, actual |-> NoToken, lx |-> lx]

RUnexpected(kinds, tok, lx) ==
    [tag |-> "UnexpectedToken", expr |-> NoExpr, expected |-> kinds,
     actual |-> tok, lx |-> lx]

\* .expect("Completely exhausted lexer") on None, or todo!()
RPanic(lx) ==
    [tag |-> "Panic", expr |-> NoExpr, expected |-> {}, actual |-> NoToken, lx |-> lx]

\* expect_token_kind: the token comes back in `actual` when it is accepted too
expect_token_kind(toks, lx, kinds) ==
    Bind(LexNext(toks, lx), LAMBDA n :
        IF n.tok.kind = "None" THEN RPanic(n.lx)
        ELSE IF n.tok.kind \in kinds
             THEN [tag |-> "Ok", expr |-> NoExpr, expected |-> kinds,
                   actual |-> n.tok, lx |-> n.lx]
             ELSE RUnexpected(kinds, n.tok, n.lx))

----------------------------------------------------------------------------
(* Expr::parse_peekable, Expr::parse                                       *)

RECURSIVE parse_peekable(_, _)
RECURSIVE parse_more_args(_, _, _)

\* the `while let Some(_) = lexer.next_if(Comma)` loop; expr carries the args
parse_more_args(toks, lx, args) ==
    Bind(NextIf(toks, lx, "Comma"), LAMBDA c :
        IF c.some
        THEN Bind(parse_peekable(toks, c.lx), LAMBDA a :
                 IF a.tag = "Ok"
                 THEN parse_more_args(toks, a.lx, Append(args, a.expr))
                 ELSE a)
        ELSE ROk(args, c.lx))

\* the arguments and the closing parenthesis, after `name (` and no `)`
parse_args(toks, lx, name) ==
    Bind(parse_peekable(toks, lx), LAMBDA first :
        IF first.tag # "Ok" THEN first
        ELSE Bind(parse_more_args(toks, first.lx, <<first.expr>>), LAMBDA rest :
            IF rest.tag # "Ok" THEN rest
            ELSE Bind(LexNext(toks, rest.lx), LAMBDA close_paren :
                IF close_paren.tok.kind = "None" THEN RPanic(close_paren.lx)
                ELSE IF close_paren.tok.kind = "CloseParen"
                     THEN ROk(Fun(name, rest.expr), close_paren.lx)
                     ELSE RUnexpected({"CloseParen"}, close_paren.tok,
                                      close_paren.lx))))

parse_peekable(toks, lx) ==
    Bind(LexNext(toks, lx), LAMBDA name :
        IF name.tok.kind = "None" THEN RPanic(name.lx)
        ELSE IF name.tok.kind # "Sym" THEN RUnexpected({"Sym"}, name.tok, name.lx)
        ELSE Bind(NextIf(toks, name.lx, "OpenParen"), LAMBDA open :
            IF ~open.some THEN ROk(Sym(name.tok.text), open.lx)
            ELSE Bind(NextIf(toks, open.lx, "CloseParen"), LAMBDA close :
                IF close.some THEN ROk(Fun(name.tok.text, <<>>), close.lx)
                ELSE parse_args(toks, close.lx, name.tok.text))))

\* Expr::parse(lexer): wraps the caller's iterator, at index pos, in a fresh
\* Peekable and drops it on return; a token it holds peeked is dropped with it.
\* The lx of the result is the caller's iterator afterwards.
parse(toks, pos) ==
    Bind(parse_peekable(toks, Peekable(pos)), LAMBDA r :
        [r EXCEPT !.lx = Peekable(r.lx.pos)])

----------------------------------------------------------------------------
(* Bindings = HashMap<String, Expr>                                        *)

\* HashMap::new()
EmptyBindings == [n \in {} |-> NoExpr]

\* HashMap::insert: sets the key, replacing what was there
MapInsert(m, k, v) == [n \in DOMAIN m \cup {k} |-> IF n = k THEN v ELSE m[n]]

----------------------------------------------------------------------------
(* pattern_match                                                           *)

RECURSIVE pattern_match_impl(_, _, _)
RECURSIVE pattern_match_args(_, _, _, _)

\* the `for i in 0..args1.len()` loop, from index i on; stops at the first failure
pattern_match_args(args1, args2, i, bindings) ==
    IF i > Len(args1) THEN [ok |-> TRUE, b |-> bindings]
    ELSE Bind(pattern_match_impl(args1[i], args2[i], bindings), LAMBDA m :
             IF ~m.ok THEN m
             ELSE pattern_match_args(args1, args2, i + 1, m.b))

\* the Sym arm without its comparison: a bound name matches any value
SymBoundCheckSkipped(bound_value, value) == TRUE

\* `bound_value == value` of the Sym arm
SymBoundCheck(bound_value, value) == bound_value = value

pattern_match_impl(pattern, value, bindings) ==
    IF pattern.kind = "Sym"
    THEN IF pattern.name \in DOMAIN bindings
         THEN [ok |-> SymBoundCheck(bindings[pattern.name], value), b |-> bindings]
         ELSE [ok |-> TRUE, b |-> MapInsert(bindings, pattern.name, value)]
    ELSE IF value.kind = "Fun"
         THEN IF pattern.name = value.name /\ Len(pattern.args) = Len(value.args)
              THEN pattern_match_args(pattern.args, value.args, 1, bindings)
              ELSE [ok |-> FALSE, b |-> bindings]
         ELSE [ok |-> FALSE, b |-> bindings]

\* Option<Bindings>: ok = FALSE is None, and the bindings are then dropped
pattern_match(pattern, value) ==
    Bind(pattern_match_impl(pattern, value, EmptyBindings), LAMBDA m :
        IF m.ok THEN m ELSE [ok |-> FALSE, b |-> EmptyBindings])

----------------------------------------------------------------------------
(* substitute_bindings                                                     *)

RECURSIVE substitute_bindings(_, _)
RECURSIVE substitute_args(_, _, _)

\* the `for arg in args` loop, from index i on; a panic in an argument unwinds
\* through the whole call, which the kind "Panic" of the result records
substitute_args(bindings, args, i) ==
    IF i > Len(args) THEN [panic |-> FALSE, args |-> <<>>]
    ELSE Bind(substitute_bindings(bindings, args[i]), LAMBDA a :
             IF a.kind = "Panic" THEN [panic |-> TRUE, args |-> <<>>]
             ELSE Bind(substitute_args(bindings, args, i + 1), LAMBDA rest :
                      IF rest.panic THEN rest
                      ELSE [panic |-> FALSE, args |-> <<a>> \o rest.args]))

\* the `let new_name = match bindings.get(name)`: the functor name of the result,
\* or Panicked for the todo!() arm
new_name(bindings, name) ==
    IF name \in DOMAIN bindings
    THEN IF bindings[name].kind = "Sym" THEN Sym(bindings[name].name) ELSE Panicked
    ELSE Sym(name)

substitute_bindings(bindings, expr) ==
    IF expr.kind = "Sym"
    THEN IF expr.name \in DOMAIN bindings THEN bindings[expr.name] ELSE expr
    ELSE Bind(new_name(bindings, expr.name), LAMBDA nn :
             IF nn.kind = "Panic" THEN Panicked
             ELSE Bind(substitute_args(bindings, expr.args, 1), LAMBDA new_args :
                      IF new_args.panic THEN Panicked
                      ELSE Fun(nn.name, new_args.args)))

----------------------------------------------------------------------------
(* Rule::apply_all                                                         *)

Rule(head, body) == [head |-> head, body |-> body]

RECURSIVE apply_all(_, _)
RECURSIVE apply_all_args(_, _, _)

\* the `for arg in args` loop of apply_all, from index i on
apply_all_args(rule, args, i) ==
    IF i > Len(args) THEN [panic |-> FALSE, args |-> <<>>]
    ELSE Bind(apply_all(rule, args[i]), LAMBDA a :
             IF a.kind = "Panic" THEN [panic |-> TRUE, args |-> <<>>]
             ELSE Bind(apply_all_args(rule, args, i + 1), LAMBDA rest :
                      IF rest.panic THEN rest
                      ELSE [panic |-> FALSE, args |-> <<a>> \o rest.args]))

\* apply_all rewriting the arguments first and the rebuilt term after them
apply_all_innermost(rule, expr) ==
    Bind(IF expr.kind = "Fun" THEN apply_all_args(rule, expr.args, 1)
         ELSE [panic |-> FALSE, args |-> <<>>], LAMBDA new_args :
        IF new_args.panic THEN Panicked
        ELSE Bind([expr EXCEPT !.args = new_args.args], LAMBDA e :
                 Bind(pattern_match(rule.head, e), LAMBDA m :
                     IF m.ok THEN substitute_bindings(m.b, rule.body) ELSE e)))

apply_all(rule, expr) ==
    Bind(pattern_match(rule.head, expr), LAMBDA m :
        IF m.ok THEN substitute_bindings(m.b, rule.body)
        ELSE IF expr.kind = "Sym" THEN expr
             ELSE Bind(apply_all_args(rule, expr.args, 1), LAMBDA new_args :
                      IF new_args.panic THEN Panicked
                      ELSE Fun(expr.name, new_args.args)))

----------------------------------------------------------------------------
(* Inputs: terms and token streams                                         *)

AlgoNames == {"f", "a"}

RECURSIVE TermsOfSize(_)
RECURSIVE ForestsOfSize(_)

\* the argument lists whose terms have m nodes in all
ForestsOfSize(m) ==
    IF m = 0 THEN {<<>>}
    ELSE UNION {{<<t>> \o rest : t \in TermsOfSize(j), rest \in ForestsOfSize(m - j)}
                : j \in 1..m}

\* the terms over AlgoNames with exactly n nodes
TermsOfSize(n) ==
    (IF n = 1 THEN {Sym(x) : x \in AlgoNames} ELSE {})
    \cup {Fun(x, as) : x \in AlgoNames, as \in ForestsOfSize(n - 1)}

AlgoTerms == UNION {TermsOfSize(n) : n \in 1..MaxTermSize}

\* the tokens the lexer makes of the text Display writes for a term
RECURSIVE Render(_)
RECURSIVE RenderArgs(_, _)
RenderArgs(args, i) ==
    IF i > Len(args) THEN <<>>
    ELSE (IF i > 1 THEN <<Tok("Comma", ",")>> ELSE <<>>)
         \o Render(args[i]) \o RenderArgs(args, i + 1)

Render(e) ==
    IF e.kind = "Sym" THEN <<Tok("Sym", e.name)>>
    ELSE <<Tok("Sym", e.name), Tok("OpenParen", "(")>> \o RenderArgs(e.args, 1)
         \o <<Tok("CloseParen", ")")>>

----------------------------------------------------------------------------
(* Context::process_command and the loop of main                           *)

\* Error, and Ok(()); name is the payload of the two rule-name errors
Res(tag, name, kinds, actual) ==
    [tag |-> tag, name |-> name, expected |-> kinds, actual |-> actual]

ResOk == Res("Ok", "", {}, NoToken)

ResOf(r) == Res(r.tag, "", r.expected, r.actual)

NoOutput == [kind |-> "", exprs |-> <<>>]

\* what one command leaves behind: the Context, the Result, stdout, the lexer
Outcome(rs, cur, res, out, lx) ==
    [rules |-> rs, current_expr |-> cur, res |-> res, out |-> out, lx |-> lx]

\* the Rule arm without its lookup: every name counts as new
RuleExistsNever(rs, name) == FALSE

\* `if let Some(existing_rule) = self.rules.get(&name.text)`
RuleExists(rs, name) == name \in DOMAIN rs

\* the rest of the Rule arm, once the name is known to be new
define_rule(rs, cur, toks, name) ==
    Bind(parse_peekable(toks, name.lx), LAMBDA head :
    IF head.tag # "Ok" THEN Outcome(rs, cur, ResOf(head), NoOutput, head.lx)
    ELSE Bind(expect_token_kind(toks, head.lx, {"Equals"}), LAMBDA eq :
    IF eq.tag # "Ok" THEN Outcome(rs, cur, ResOf(eq), NoOutput, eq.lx)
    ELSE Bind(parse_peekable(toks, eq.lx), LAMBDA body :
    IF body.tag # "Ok" THEN Outcome(rs, cur, ResOf(body), NoOutput, body.lx)
    ELSE Outcome(MapInsert(rs, name.actual.text, Rule(head.expr, body.expr)), cur,
                 ResOk, [kind |-> "Defined rule", exprs |-> <<head.expr, body.expr>>],
                 body.lx))))

\* TokenKind::Rule arm
process_rule(rs, cur, toks, lx0) ==
    Bind(expect_token_kind(toks, lx0, {"Sym"}), LAMBDA name :
    IF name.tag # "Ok" THEN Outcome(rs, cur, ResOf(name), NoOutput, name.lx)
    ELSE IF RuleExists(rs, name.actual.text)
    THEN Outcome(rs, cur, Res("RuleAlreadyExists", name.actual.text, {}, NoToken),
                 NoOutput, name.lx)
    ELSE define_rule(rs, cur, toks, name))

\* TokenKind::Shape arm
process_shape(rs, cur, toks, lx0) ==
    IF cur # NoExpr
    THEN Outcome(rs, cur, Res("AlreadyShaping", "", {}, NoToken), NoOutput, lx0)
    ELSE Bind(parse_peekable(toks, lx0), LAMBDA expr :
         IF expr.tag # "Ok" THEN Outcome(rs, cur, ResOf(expr), NoOutput, expr.lx)
         ELSE Outcome(rs, expr.expr, ResOk,
                      [kind |-> "Shaping", exprs |-> <<expr.expr>>], expr.lx))

\* TokenKind::Apply arm
process_apply(rs, cur, toks, lx0) ==
    IF cur = NoExpr
    THEN Outcome(rs, cur, Res("NoShapingInPlace", "", {}, NoToken), NoOutput, lx0)
    ELSE Bind(expect_token_kind(toks, lx0, {"Sym"}), LAMBDA name :
         IF name.tag # "Ok" THEN Outcome(rs, cur, ResOf(name), NoOutput, name.lx)
         ELSE IF name.actual.text \notin DOMAIN rs
         THEN Outcome(rs, cur, Res("RuleDoesNotExist", name.actual.text, {}, NoToken),
                      NoOutput, name.lx)
         ELSE Bind(apply_all(rs[name.actual.text], cur), LAMBDA new_expr :
              IF new_expr.kind = "Panic"
              THEN Outcome(rs, cur, Res("Panic", "", {}, NoToken), NoOutput, name.lx)
              ELSE Outcome(rs, new_expr, ResOk,
                           [kind |-> "Applied", exprs |-> <<new_expr>>], name.lx)))

\* TokenKind::Done arm
process_done(rs, cur, toks, lx0) ==
    IF cur = NoExpr
    THEN Outcome(rs, cur, Res("NoShapingInPlace", "", {}, NoToken), NoOutput, lx0)
    ELSE Outcome(rs, NoExpr, ResOk,
                 [kind |-> "Finished shaping", exprs |-> <<cur>>], lx0)

Keywords == {"Rule", "Shape", "Apply", "Done"}

process_command(rs, cur, toks, lx0) ==
    Bind(expect_token_kind(toks, lx0, Keywords), LAMBDA keyword :
    IF keyword.tag # "Ok" THEN Outcome(rs, cur, ResOf(keyword), NoOutput, keyword.lx)
    ELSE IF keyword.actual.kind = "Rule" THEN process_rule(rs, cur, toks, keyword.lx)
    ELSE IF keyword.actual.kind = "Shape" THEN process_shape(rs, cur, toks, keyword.lx)
    ELSE IF keyword.actual.kind = "Apply" THEN process_apply(rs, cur, toks, keyword.lx)
    ELSE process_done(rs, cur, toks, keyword.lx))

\* `.and_then(|()| expect_token_kind(&mut lexer, TokenKindSet::single(End)))`:
\* the Context is what process_command left, whatever the End check says
and_then_end(toks, done) ==
    IF done.res.tag # "Ok" THEN done
    ELSE Bind(expect_token_kind(toks, done.lx, {"End"}), LAMBDA end :
             IF end.tag = "Ok" THEN [done EXCEPT !.lx = end.lx]
             ELSE [done EXCEPT !.res = ResOf(end), !.lx = end.lx])

\* one iteration of main's loop on the line toks
main_iteration(rs, cur, toks) ==
    Bind(process_command(rs, cur, toks, Peekable(1)), LAMBDA done :
        and_then_end(toks, done))

----------------------------------------------------------------------------
(* The lines typed at the prompt                                           *)

RuleNames == {"r", "s"}

\* head = body of the rules that get defined
RuleDefs ==
    { Rule(Fun("f", <<Sym("a")>>), Sym("a")),
      Rule(Sym("a"), Fun("a", <<Sym("b")>>)) }

ShapeTerms == { Sym("c"), Fun("f", <<Sym("b")>>) }

\* the well-formed commands, without the End token
GoodLines ==
    {<<Tok("Rule", "rule"), Tok("Sym", n)>> \o Render(d.head)
        \o <<Tok("Equals", "=")>> \o Render(d.body) : n \in RuleNames, d \in RuleDefs}
    \cup {<<Tok("Shape", "shape")>> \o Render(t) : t \in ShapeTerms}
    \cup {<<Tok("Apply", "apply"), Tok("Sym", n)>> : n \in RuleNames}
    \cup {<<Tok("Done", "done")>>}

\* a token left over after a well-formed command
JunkTok == Tok("Sym", "x")

\* the commands that are typed cut short, at every token
CutLines ==
    { <<Tok("Rule", "rule"), Tok("Sym", "r")>> \o Render(Fun("f", <<Sym("a")>>))
          \o <<Tok("Equals", "="), Tok("Sym", "a")>>,
      <<Tok("Shape", "shape")>> \o Render(Fun("f", <<Sym("b")>>)),
      <<Tok("Apply", "apply"), Tok("Sym", "r")>> }

\* every line ends with the End token the lexer makes of the end of the input:
\* the well-formed commands, the same with one more token, and the commands cut
\* short (the empty line among them)
Lines ==
    {w \o <<EndTok>> : w \in GoodLines}
    \cup {w \o <<JunkTok, EndTok>> : w \in GoodLines}
    \cup UNION {{SubSeq(w, 1, k) \o <<EndTok>> : k \in 0..(Len(w) - 1)}
                : w \in CutLines}

LinesOf(kinds) == {l \in Lines : Head(l).kind \in kinds}

----------------------------------------------------------------------------
(* Spec: the session                                                       *)

EmptyRules == [n \in {} |-> Rule(NoExpr, NoExpr)]

NoCall == [none |-> TRUE]

\* Context::default(), before the first line is read
InitSession ==
    /\ rules = EmptyRules
    /\ current_expr = NoExpr
    /\ command = <<>>
    /\ result = ResOk
    /\ output = NoOutput
    /\ nShape = 0
    /\ nDone = 0
    /\ ideal = NoExpr

Init ==
    /\ InitSession
    /\ call_fn = "none"
    /\ call_in = NoCall
    /\ call_out = NoCall

\* the process is alive: no panic has unwound out of main
Running == result.tag # "Panic"

\* the history term after an apply that ended Ok
IdealApply(rule, t) == IF t.kind \in {"None", "Panic"} THEN t ELSE apply_all(rule, t)

\* the loop body of main on one line: the Context, the result and stdout
Iterate(line) ==
    \E o \in {main_iteration(rules, current_expr, line)} :
    /\ Running
    /\ rules' = o.rules
    /\ current_expr' = o.current_expr
    /\ command' = line
    /\ result' = o.res
    /\ output' = o.out
    /\ UNCHANGED callVars

RuleCommand ==
    \E line \in LinesOf({"Rule"}) :
        /\ Iterate(line)
        /\ UNCHANGED <<nShape, nDone, ideal>>

ShapeCommand ==
    \E line \in LinesOf({"Shape"}) :
        /\ Iterate(line)
        /\ nShape' = IF result'.tag = "Ok" THEN nShape + 1 ELSE nShape
        /\ nShape' <= MaxCount
        /\ ideal' = IF result'.tag = "Ok" THEN current_expr' ELSE ideal
        /\ UNCHANGED nDone

ApplyCommand ==
    \E line \in LinesOf({"Apply"}) :
        /\ Iterate(line)
        /\ ideal' = IF result'.tag = "Ok" THEN IdealApply(rules[line[2].text], ideal)
                    ELSE ideal
        /\ UNCHANGED <<nShape, nDone>>

DoneCommand ==
    \E line \in LinesOf({"Done"}) :
        /\ Iterate(line)
        /\ nDone' = IF result'.tag = "Ok" THEN nDone + 1 ELSE nDone
        /\ nDone' <= MaxCount
        /\ ideal' = IF result'.tag = "Ok" THEN NoExpr ELSE ideal
        /\ UNCHANGED nShape

\* a line that does not start with a keyword
OtherCommand ==
    \E line \in LinesOf({"Sym", "OpenParen", "CloseParen", "Comma", "Equals", "End"}) :
        /\ Iterate(line)
        /\ UNCHANGED <<nShape, nDone, ideal>>

Next == RuleCommand \/ ShapeCommand \/ ApplyCommand \/ DoneCommand \/ OtherCommand

Spec == Init /\ [][Next]_vars

----------------------------------------------------------------------------
(* SpecAlgo: pattern_match, substitute_bindings and apply_all on terms     *)

\* rule bodies and templates: a variable, a body that holds a match of the head
\* f(a), a body whose functor name is a variable, and the body of the test
AlgoBodies ==
    { Sym("a"),
      Fun("f", <<Fun("f", <<Sym("a")>>)>>),
      Fun("a", <<Sym("f")>>),
      Fun("pair", <<Sym("b"), Sym("a")>>) }

\* tests::rule_apply_all: swap(pair(a, b)) = pair(b, a) on
\* foo(swap(pair(f(a), g(b))), swap(pair(q(c), z(d))))
TestHead == Fun("swap", <<Fun("pair", <<Sym("a"), Sym("b")>>)>>)

TestBody == Fun("pair", <<Sym("b"), Sym("a")>>)

TestInput ==
    Fun("foo",
        << Fun("swap", <<Fun("pair", <<Fun("f", <<Sym("a")>>), Fun("g", <<Sym("b")>>)>>)>>),
           Fun("swap", <<Fun("pair", <<Fun("q", <<Sym("c")>>), Fun("z", <<Sym("d")>>)>>)>>) >>)

TestExpected ==
    Fun("foo",
        << Fun("pair", <<Fun("g", <<Sym("b")>>), Fun("f", <<Sym("a")>>)>>),
           Fun("pair", <<Fun("z", <<Sym("d")>>), Fun("q", <<Sym("c")>>)>>) >>)

AlgoIn(p, v, t) == [pattern |-> p, value |-> v, template |-> t]

AlgoOut(m, e) == [m |-> m, e |-> e]

InitAlgo ==
    /\ InitSession
    /\ call_fn = "none"
    /\ call_in \in {AlgoIn(p, v, NoExpr) : p \in AlgoTerms, v \in AlgoTerms}
                   \cup {AlgoIn(TestHead, TestInput, NoExpr)}
    /\ call_out = NoCall

\* pattern_match(pattern, value)
PatternMatch ==
    /\ call_fn = "none"
    /\ call_fn' = "pattern_match"
    /\ call_out' = AlgoOut(pattern_match(call_in.pattern, call_in.value), NoExpr)
    /\ UNCHANGED <<call_in, sessionVars>>

\* substitute_bindings(bindings, template), with the bindings of a match
\* and the template a rule body or the pattern itself
SubstituteBindings ==
    \E m \in {pattern_match(call_in.pattern, call_in.value)} :
    \E t \in AlgoBodies \cup {call_in.pattern} :
        /\ call_fn = "none"
        /\ m.ok
        /\ call_fn' = "substitute_bindings"
        /\ call_in' = [call_in EXCEPT !.template = t]
        /\ call_out' = AlgoOut(m, substitute_bindings(m.b, t))
        /\ UNCHANGED sessionVars

\* Rule { head: pattern, body }.apply_all(value)
ApplyAll ==
    \E body \in AlgoBodies :
        /\ call_fn = "none"
        /\ call_fn' = "apply_all"
        /\ call_in' = [call_in EXCEPT !.template = body]
        /\ call_out' = AlgoOut(pattern_match(call_in.pattern, call_in.value),
                               apply_all(Rule(call_in.pattern, body), call_in.value))
        /\ UNCHANGED sessionVars

NextAlgo == PatternMatch \/ SubstituteBindings \/ ApplyAll

SpecAlgo == InitAlgo /\ [][NextAlgo]_vars

----------------------------------------------------------------------------
(* SpecParse: Expr::parse_peekable and Expr::parse on token streams        *)

\* what follows the term in the stream; the lexer ends every stream with End
Suffixes ==
    { <<EndTok>>,
      <<Tok("Equals", "="), Tok("Sym", "a"), EndTok>>,
      <<Tok("Comma", ","), Tok("Sym", "a"), EndTok>>,
      <<Tok("CloseParen", ")"), EndTok>>,
      <<Tok("Sym", "x"), EndTok>>,
      <<Tok("OpenParen", "("), Tok("CloseParen", ")"), EndTok>> }

\* a term and what follows it, and the terms cut short
ParseStreams ==
    {Render(t) \o sfx : t \in AlgoTerms, sfx \in Suffixes}
    \cup UNION {{SubSeq(Render(t), 1, k) \o <<EndTok>> : k \in 0..(Len(Render(t)) - 1)}
                : t \in AlgoTerms}

ParseOut(r, next) == [r |-> r, next |-> next]

InitParse ==
    /\ InitSession
    /\ call_fn = "none"
    /\ call_in \in {[toks |-> ts] : ts \in ParseStreams}
    /\ call_out = NoCall

\* Expr::parse_peekable(&mut lexer) on a fresh Peekable, then lexer.next()
ParsePeekable ==
    \E r \in {parse_peekable(call_in.toks, Peekable(1))} :
        /\ call_fn = "none"
        /\ call_fn' = "parse_peekable"
        /\ call_out' = ParseOut(r, LexNext(call_in.toks, r.lx).tok)
        /\ UNCHANGED <<call_in, sessionVars>>

\* Expr::parse(&mut lexer) on the plain iterator, then lexer.next()
ParsePlain ==
    \E r \in {parse(call_in.toks, 1)} :
        /\ call_fn = "none"
        /\ call_fn' = "parse"
        /\ call_out' = ParseOut(r, LexNext(call_in.toks, r.lx).tok)
        /\ UNCHANGED <<call_in, sessionVars>>

NextParse == ParsePeekable \/ ParsePlain

SpecParse == InitParse /\ [][NextParse]_vars

----------------------------------------------------------------------------
(* Positions in a term, for stating what the traversals do                 *)

\* the paths (argument indices from the root) of the nodes of e
RECURSIVE Positions(_)
Positions(e) ==
    {<<>>} \cup UNION {{<<i>> \o q : q \in Positions(e.args[i])} : i \in DOMAIN e.args}

\* the subterm of e at the path q
RECURSIVE At(_, _)
At(e, q) == IF q = <<>> THEN e ELSE At(e.args[Head(q)], Tail(q))

\* q1 is q2 or an ancestor of q2
IsPrefix(q1, q2) == Len(q1) <= Len(q2) /\ SubSeq(q2, 1, Len(q1)) = q1

SameNode(e1, e2) ==
    e1.kind = e2.kind /\ e1.name = e2.name /\ Len(e1.args) = Len(e2.args)

SymPositions(p) == {q \in Positions(p) : At(p, q).kind = "Sym"}

----------------------------------------------------------------------------
(* Claims on SpecAlgo                                                      *)

\* C2: if pattern_match(p, v) succeeds with bindings b, then
\* substitute_bindings(b, p) is structurally equal to v.
MatchSoundness ==
    (call_fn = "substitute_bindings" /\ call_in.template = call_in.pattern)
        => call_out.e = call_in.value

\* the functor name of the template is bound to a Fun term
FunctorBoundToCompound(b, t) ==
    t.kind = "Fun" /\ t.name \in DOMAIN b /\ b[t.name].kind = "Fun"

\* C4: instantiating a Fun template whose functor name is bound to a Fun term
\* gives the caller a distinct error value: the call neither returns a term
\* with some coerced functor name nor aborts.
SubstitutionSurfacesError ==
    (call_fn = "substitute_bindings"
        /\ FunctorBoundToCompound(call_out.m.b, call_in.template))
        => call_out.e.kind \notin {"Sym", "Fun", "Panic", "None"}

\* every Fun node of the pattern lies over a Fun node of the value with the
\* same name and as many arguments
Compatible(p, v) ==
    \A q \in Positions(p) :
        /\ q \in Positions(v)
        /\ At(p, q).kind = "Fun" => SameNode(At(p, q), At(v, q))

\* the value has equal subterms wherever the pattern has the same atom
Consistent(p, v) ==
    \A q1 \in SymPositions(p), q2 \in SymPositions(p) :
        At(p, q1).name = At(p, q2).name => At(v, q1) = At(v, q2)

\* C9: pattern_match succeeds exactly when the value has the pattern's shape
\* and equal subterms at all the positions of one atom name; it then binds
\* each atom name to that subterm, and binds nothing else; a failure anywhere
\* returns none.
VariableConsistency ==
    call_fn = "pattern_match" =>
        LET p == call_in.pattern
            v == call_in.value
            m == call_out.m
        IN  /\ m.ok <=> (Compatible(p, v) /\ Consistent(p, v))
            /\ m.ok => /\ DOMAIN m.b = {At(p, q).name : q \in SymPositions(p)}
                       /\ \A q \in SymPositions(p) : m.b[At(p, q).name] = At(v, q)
            /\ ~m.ok => m.b = EmptyBindings

\* C9 witness: a pattern with one atom at two argument positions has matched
VariableConsistencyWitness ==
    /\ call_fn = "pattern_match"
    /\ call_out.m.ok
    /\ \E q1 \in SymPositions(call_in.pattern), q2 \in SymPositions(call_in.pattern) :
          /\ q1 # q2
          /\ At(call_in.pattern, q1).name = At(call_in.pattern, q2).name
          /\ At(call_in.value, q1).kind = "Fun"

\* the positions of t whose subterm the head matches
MatchPositions(head, t) == {q \in Positions(t) : pattern_match(head, At(t, q)).ok}

\* the matches that lie in no other match
Outermost(head, t) ==
    {q \in MatchPositions(head, t) :
        \A q0 \in MatchPositions(head, t) : IsPrefix(q0, q) => q0 = q}

\* the positions that lie in no match
Outside(head, t) ==
    {q \in Positions(t) : \A q0 \in MatchPositions(head, t) : ~IsPrefix(q0, q)}

\* the body instantiated with the bindings of the match at q
Instance(head, body, t, q) ==
    substitute_bindings(pattern_match(head, At(t, q)).b, body)

\* C8: one apply_all call replaces exactly the outermost subtrees the head
\* matches, each by the body instantiated with that subtree's bindings, keeps
\* every node outside them, and returns a term without a match unchanged; it
\* looks for no match inside a replaced subtree or a produced body.  (Where an
\* instantiation panics, so does the call.)
ApplyAllOutermost ==
    call_fn = "apply_all" =>
        LET head == call_in.pattern
            body == call_in.template
            t == call_in.value
            r == call_out.e
        IN  IF \E q \in Outermost(head, t) : Instance(head, body, t, q).kind = "Panic"
            THEN r = Panicked
            ELSE /\ \A q \in Outside(head, t) :
                       q \in Positions(r) /\ SameNode(At(r, q), At(t, q))
                 /\ \A q \in Outermost(head, t) :
                       q \in Positions(r) /\ At(r, q) = Instance(head, body, t, q)
                 /\ MatchPositions(head, t) = {} => r = t
                 /\ (head = TestHead /\ body = TestBody /\ t = TestInput)
                       => r = TestExpected

\* C8 witness: two sibling subtrees were rewritten in one call, each with its
\* own bindings, under a root that was kept
ApplyAllOutermostWitness ==
    /\ call_fn = "apply_all"
    /\ call_out.e.kind = "Fun"
    /\ \E q1 \in Outermost(call_in.pattern, call_in.value),
          q2 \in Outermost(call_in.pattern, call_in.value) :
          /\ q1 # q2
          /\ At(call_out.e, q1) # At(call_in.value, q1)
          /\ At(call_out.e, q1) # At(call_out.e, q2)

----------------------------------------------------------------------------
(* Claims on SpecParse                                                     *)

\* the stream is the term t and then sfx, t being the whole term it starts with
StartsWithTerm(toks, t, sfx) ==
    /\ toks = Render(t) \o sfx
    /\ ~(t.kind = "Sym" /\ Head(sfx).kind = "OpenParen")

\* C10: on a stream that starts with a well-formed term, a parse through either
\* entry point returns that term, and the next token read from the caller's
\* stream is the first token after the term.
ParserLeavesStreamAfterTerm ==
    call_fn \in {"parse_peekable", "parse"} =>
        \A t \in AlgoTerms, sfx \in Suffixes :
            StartsWithTerm(call_in.toks, t, sfx) =>
                /\ call_out.r.tag = "Ok"
                /\ call_out.r.expr = t
                /\ call_out.next = Head(sfx)

----------------------------------------------------------------------------
(* Claims on Spec                                                          *)

ErrorKinds ==
    {"UnexpectedToken", "RuleAlreadyExists", "RuleDoesNotExist", "AlreadyShaping",
     "NoShapingInPlace"}

\* C1: a command that ends in an error of any kind leaves the rule table and
\* the current term as they were.
CommandsAtomic ==
    [][result'.tag \in ErrorKinds
          => (rules' = rules /\ current_expr' = current_expr)]_vars

\* C3: every command succeeds or is reported as one of the five error kinds,
\* and the loop then reads the next command: the session never aborts.
NoErrorIsFatal == result.tag \in {"Ok"} \cup ErrorKinds

\* the keyword of a line
Keyword(line) == Head(line).kind

\* what apply, done and shape do in Idle and in Shaping(t)
SessionGuards ==
    /\ (current_expr = NoExpr /\ Keyword(command') \in {"Apply", "Done"})
          => (result'.tag = "NoShapingInPlace" /\ current_expr' = NoExpr)
    /\ (current_expr = NoExpr /\ \E t \in ShapeTerms :
                                    command' = <<Tok("Shape", "shape")>> \o Render(t)
                                                  \o <<EndTok>>)
          => (result'.tag = "Ok" /\ command' = <<Tok("Shape", "shape")>>
                                      \o Render(current_expr') \o <<EndTok>>)
    /\ (current_expr # NoExpr /\ Keyword(command') = "Shape")
          => (result'.tag = "AlreadyShaping" /\ current_expr' = current_expr)
    /\ (current_expr # NoExpr /\ command' = <<Tok("Done", "done"), EndTok>>)
          => (result'.tag = "Ok" /\ current_expr' = NoExpr)

\* the session is Shaping exactly when one more shape command than done
\* commands has succeeded, and Idle exactly when as many have
ShapingIffOneMoreShape ==
    /\ current_expr # NoExpr <=> nShape = nDone + 1
    /\ current_expr = NoExpr <=> nShape = nDone

\* C5: in Idle, apply and done fail with NoShapingInPlace and shape(t) moves
\* to Shaping(t); in Shaping(t), shape fails with AlreadyShaping and keeps t,
\* and done moves to Idle; so the session is Shaping exactly when one more
\* shape command than done commands has succeeded.
SessionTransitions == [][SessionGuards /\ ShapingIffOneMoreShape']_vars

\* the guards of C5 alone, which the handlers keep
SessionGuardsHold == [][SessionGuards]_vars

\* an apply that succeeds rewrites the current term with the named rule and
\* leaves the rule table; an apply of a name the table lacks fails
ApplySteps ==
    /\ (Keyword(command') = "Apply" /\ result'.tag = "Ok")
          => /\ current_expr # NoExpr
             /\ command'[2].text \in DOMAIN rules
             /\ current_expr' = apply_all(rules[command'[2].text], current_expr)
             /\ rules' = rules
    /\ (current_expr # NoExpr /\ Keyword(command') = "Apply"
           /\ command'[2].kind = "Sym" /\ command'[2].text \notin DOMAIN rules)
          => result'.tag = "RuleDoesNotExist"

\* after a successful shape, the term a successful done reports is the shaped
\* term rewritten by the successful applies since
DoneReportsAppliedRules ==
    (Keyword(command') = "Done" /\ result'.tag = "Ok" /\ ideal # NoExpr)
        => output'.exprs = <<ideal>>

\* C6: a successful apply of r in Shaping(t) moves to
\* Shaping(apply_all(rules[r], t)) and leaves the rule table; an apply of an
\* absent name fails with RuleDoesNotExist; so the term done reports is the
\* shaped term rewritten by the successful applies, whatever define-rule and
\* failed commands came between them.
ApplyLadder == [][ApplySteps /\ DoneReportsAppliedRules]_vars

\* the apply steps of C6 alone, which the handler keeps
ApplyStepsHold == [][ApplySteps]_vars

\* the command just read is `rule <name> ...` with a name the table has
DefinesExisting(line, rs) ==
    /\ Len(line) >= 2
    /\ line[1].kind = "Rule"
    /\ line[2].kind = "Sym"
    /\ line[2].text \in DOMAIN rs

====
